---- MODULE Spec2Model ----
(***************************************************************************)
(* The Dynatrace MCP HTTP bridge of src/server.js: one child process, the  *)
(* readiness flag, the map of pending requests, the stdout/stderr/close/   *)
(* error handlers of initializeMCP and the promise and timer of every      *)
(* sendToMCP call.                                                         *)
(*                                                                         *)
(* Text is a sequence of tokens <<kind, id>>.  A response line             *)
(* '{"id":"<i>", ... }' is the two fragments ResHead(i) ResTail(i), then    *)
(* NL, so that a chunk boundary can fall inside a line.                    *)
(***************************************************************************)
EXTENDS Naturals, Sequences, FiniteSets

\* ------------------------------------------------------------ bounds
MaxCalls == 2
MaxPieces == 2
MaxErrors == 1

\* ------------------------------------------------------------ text
NL == <<"nl", 0>>
Noise == <<"noise", 0>>
SRV == <<"Server ", 0>>
RDY == <<"ready", 0>>
DTR == <<"Dynatrace MCP Server running", 0>>
STDIO == <<"running on stdio", 0>>
NInit == <<"notifications/initialized", 0>>
ResHead(i) == <<"head", i>>
ResTail(i) == <<"tail", i>>

\* uuidv4(): a value no earlier call of uuidv4 returned.  The n-th call made
\* by a route handler draws n; the handshake draws HandshakeId.
uuidv4(n) == n
HandshakeId == MaxCalls + 1
Calls == 1..MaxCalls
Ids == 1..(MaxCalls + 1)

\* String.prototype.includes: pat occurs in s as a contiguous run.
Includes(s, pat) ==
    \E k \in 0..(Len(s) - Len(pat)) :
        \A j \in 1..Len(pat) : s[k + j] = pat[j]

\* chunk.split('\n')
RECURSIVE SplitFrom(_, _, _)
SplitFrom(s, i, cur) ==
    IF i > Len(s) THEN <<cur>>
    ELSE IF s[i] = NL THEN <<cur>> \o SplitFrom(s, i + 1, <<>>)
    ELSE SplitFrom(s, i + 1, Append(cur, s[i]))

Split(s) == SplitFrom(s, 1, <<>>)

\* .filter(line => line.trim()): the empty pieces of the split are dropped.
RECURSIVE FilterNonBlank(_)
FilterNonBlank(ls) ==
    IF ls = <<>> THEN <<>>
    ELSE IF Head(ls) = <<>> THEN FilterNonBlank(Tail(ls))
    ELSE <<Head(ls)>> \o FilterNonBlank(Tail(ls))

\* JSON.parse(line).  A response line parses to an object with an id; the
\* notifications/initialized line parses to an object without one (id 0
\* stands for undefined); every other text throws.
JSONparse(line) ==
    IF Len(line) = 2 /\ line[1][1] = "head" /\ line[2][1] = "tail"
    THEN [ok |-> TRUE, id |-> line[1][2], result |-> line[2][2]]
    ELSE IF line = <<NInit>>
    THEN [ok |-> TRUE, id |-> 0, result |-> 0]
    ELSE [ok |-> FALSE, id |-> 0, result |-> 0]

Lines(chunk) == FilterNonBlank(Split(chunk))

\* ------------------------------------------------------------ state
VARIABLES
    env,              \* DT_PLATFORM_TOKEN and DT_ENVIRONMENT are both set
    mcpProcess,       \* "null" or "child"
    mcpReady,
    initBuffer,
    pendingRequests,  \* id -> the call whose {resolve, reject} is stored
    promise,          \* the promise sendToMCP returned to each call
    timers,           \* calls whose 30 s timer is armed
    stdin,            \* ids of the messages written to the child
    initPromise,      \* the promise initializeMCP returned
    handshakeTimer,   \* the 1 s timer is armed
    initTimer,        \* the 60 s timer is armed
    closed,           \* the child emitted 'close'
    exited,           \* the bridge called process.exit
    childSignal,      \* the signal the bridge sent to the child
    nCalls,           \* sendToMCP calls made so far
    partial,          \* the beginning of a stdout line received without its end
    nErrors,          \* 'error' events the child has emitted
    run               \* the frame of the stdout handler that is running

vars == <<env, mcpProcess, mcpReady, initBuffer, pendingRequests, promise,
          timers, stdin, initPromise, handshakeTimer, initTimer, closed,
          exited, childSignal, nCalls, partial, nErrors, run>>

NoResp == <<0, 0>>
\* settled counts the invocations of the promise's resolve and reject.
Unissued ==
    [state |-> "none", id |-> 0, value |-> NoResp, error |-> "", settled |-> 0]
\* The frame of the stdout handler: whether it took the readiness return,
\* what each line of its chunk parses to (ok, id), and the ids whose entry it
\* resolved.
Idle == [on |-> FALSE, readied |-> FALSE, lines |-> <<>>, hits |-> {}]

ErrNotReady == "MCP server not ready"
ErrTimeout == "MCP response timeout"
ErrClosed == "MCP process closed"
ErrWrite == "write error"
ErrEnv == "DT_PLATFORM_TOKEN and DT_ENVIRONMENT are required"
ErrInitTimeout == "MCP server initialization timeout"
ErrSpawn == "child process error"

\* A promise keeps its first settlement; later resolve/reject calls are no-ops.
Settle(p, st, value, error) ==
    IF p.state = "pending"
    THEN [p EXCEPT !.state = st, !.value = value, !.error = error,
                   !.settled = @ + 1]
    ELSE [p EXCEPT !.settled = @ + 1]

Resolve(pr, c, resp) == [pr EXCEPT ![c] = Settle(pr[c], "resolved", resp, "")]
Reject(pr, c, err) == [pr EXCEPT ![c] = Settle(pr[c], "rejected", NoResp, err)]

\* Map.delete
MapDelete(m, k) == [x \in (DOMAIN m) \ {k} |-> m[x]]
\* Map.set
MapSet(m, k, v) == [x \in (DOMAIN m) \cup {k} |-> IF x = k THEN v ELSE m[x]]
EmptyMap == [x \in {} |-> 0]

Init ==
    /\ env \in BOOLEAN
    /\ mcpProcess = "null"
    /\ mcpReady = FALSE
    /\ initBuffer = <<>>
    /\ pendingRequests = EmptyMap
    /\ promise = [c \in Calls |-> Unissued]
    /\ timers = {}
    /\ stdin = <<>>
    /\ initPromise = [state |-> "none", error |-> ""]
    /\ handshakeTimer = FALSE
    /\ initTimer = FALSE
    /\ closed = FALSE
    /\ exited = FALSE
    /\ childSignal = "none"
    /\ nCalls = 0
    /\ partial = <<>>
    /\ nErrors = 0
    /\ run = Idle

\* ------------------------------------------------------------ the child's output
\* The child writes whole lines; the pipe hands them to the bridge in chunks
\* cut anywhere, also inside a response line or inside 'Server ready'.  The
\* child answers only ids it has read from its stdin.
ResLine(i) == <<ResHead(i), ResTail(i), NL>>

WholeLines(ids) ==
    {ResLine(i) : i \in ids}
        \cup {<<Noise, NL>>, <<NInit, NL>>, <<DTR, NL>>, <<SRV, RDY, NL>>}

\* The first part of a line whose end is still in the pipe, and that end.
Fragments(ids) == {<<ResHead(i)>> : i \in ids} \cup {<<SRV>>}
RestOf(frag) == IF frag = <<SRV>> THEN <<RDY, NL>> ELSE <<ResTail(frag[1][2]), NL>>

\* Up to n pieces: whole lines, and at the very end possibly a fragment.
RECURSIVE Bodies(_, _)
Bodies(n, ids) ==
    IF n = 0 THEN {<<>>}
    ELSE {<<>>} \cup Fragments(ids)
             \cup {l \o b : l \in WholeLines(ids), b \in Bodies(n - 1, ids)}

\* The chunks that can come next when the bridge has received the beginning
\* open of a line without its end and the child has read the ids written.
StdoutChunks(open, written) ==
    LET ids == {written[k] : k \in 1..Len(written)}
    IN IF open = <<>> THEN Bodies(MaxPieces, ids) \ {<<>>}
       ELSE {RestOf(open) \o b : b \in Bodies(MaxPieces - 1, ids)}

\* What is received of the last line after chunk: nothing if chunk ends with
\* a newline.
OpenAfter(chunk) == LET ls == Split(chunk) IN ls[Len(ls)]

StderrChunks == {<<Noise, NL>>, <<STDIO, NL>>, <<SRV, RDY, NL>>}

\* ------------------------------------------------------------ initializeMCP
\* The outcome of reject(...) on the initialization promise: startServer's
\* catch block calls process.exit(1) when the awaited promise rejects.
InitReject(err) ==
    IF initPromise.state = "pending"
    THEN /\ initPromise' = [state |-> "rejected", error |-> err]
         /\ exited' = TRUE
    ELSE UNCHANGED <<initPromise, exited>>

InitResolve ==
    initPromise' = IF initPromise.state = "pending"
                   THEN [state |-> "resolved", error |-> ""]
                   ELSE initPromise

\* InitializeMCP with the child spawned and the timers set before the
\* environment is validated.
InitializeMCP_SpawnFirst ==
    /\ UNCHANGED <<partial, nErrors>>
    /\ ~exited /\ initPromise.state = "none"
    /\ mcpProcess' = "child"
    /\ handshakeTimer' = TRUE
    /\ initTimer' = TRUE
    /\ IF ~env
       THEN /\ initPromise' = [state |-> "rejected", error |-> ErrEnv]
            /\ exited' = TRUE
       ELSE /\ initPromise' = [state |-> "pending", error |-> ""]
            /\ UNCHANGED exited
    /\ UNCHANGED <<env, mcpReady, initBuffer, pendingRequests, promise, timers,
                   stdin, closed, childSignal, nCalls, run>>

InitializeMCP ==
    /\ UNCHANGED <<partial, nErrors>>
    /\ ~exited /\ initPromise.state = "none"
    /\ IF ~env
       THEN /\ initPromise' = [state |-> "rejected", error |-> ErrEnv]
            /\ exited' = TRUE
            /\ UNCHANGED <<mcpProcess, handshakeTimer, initTimer>>
       ELSE /\ mcpProcess' = "child"
            /\ initPromise' = [state |-> "pending", error |-> ""]
            /\ handshakeTimer' = TRUE
            /\ initTimer' = TRUE
            /\ UNCHANGED exited
    /\ UNCHANGED <<env, mcpReady, initBuffer, pendingRequests, promise, timers,
                   stdin, closed, childSignal, nCalls, run>>

\* initBuffer is only ever read by includes(): the model keeps of it the part
\* that can still decide a later includes(), a found marker or a trailing
\* beginning of one.
Keep(buf) ==
    IF Includes(buf, <<SRV, RDY>>) THEN <<SRV, RDY>>
    ELSE IF Includes(buf, <<DTR>>) THEN <<DTR>>
    ELSE IF buf # <<>> /\ buf[Len(buf)] = SRV THEN <<SRV>>
    ELSE <<>>

\* StdoutReady with the first two markers looked for in the chunk instead of
\* the accumulated initBuffer.
StdoutReady_ChunkOnly(buf, chunk) ==
    \/ Includes(chunk, <<SRV, RDY>>)
    \/ Includes(chunk, <<DTR>>)
    \/ Includes(chunk, <<NInit>>)

StdoutReady(buf, chunk) ==
    \/ Includes(buf, <<SRV, RDY>>)
    \/ Includes(buf, <<DTR>>)
    \/ Includes(chunk, <<NInit>>)

\* DispatchLine with the response handed to the oldest entry of the map
\* instead of the entry of its id.
DispatchLine_FirstPending(st, line) ==
    LET response == JSONparse(line)
    IN IF response.ok /\ response.id # 0 /\ response.id \in DOMAIN st.pending
       THEN LET first == CHOOSE x \in DOMAIN st.pending :
                             \A y \in DOMAIN st.pending : x <= y
                c == st.pending[first]
            IN [pending |-> MapDelete(st.pending, first),
                promise |-> Resolve(st.promise, c,
                                    <<response.id, response.result>>),
                hits |-> st.hits \cup {response.id}]
       ELSE st

\* DispatchLine with a response whose id has no entry handed to the oldest
\* entry of the map.
DispatchLine_Fallback(st, line) ==
    LET response == JSONparse(line)
        known == response.id \in DOMAIN st.pending
        key == IF known THEN response.id
               ELSE CHOOSE x \in DOMAIN st.pending :
                        \A y \in DOMAIN st.pending : x <= y
    IN IF response.ok /\ response.id # 0 /\ DOMAIN st.pending # {}
       THEN [pending |-> MapDelete(st.pending, key),
             promise |-> Resolve(st.promise, st.pending[key],
                                 <<response.id, response.result>>),
             hits |-> st.hits \cup {key}]
       ELSE st

\* DispatchLine without pendingRequests.delete(response.id).
DispatchLine_NoDelete(st, line) ==
    LET response == JSONparse(line)
    IN IF response.ok /\ response.id # 0 /\ response.id \in DOMAIN st.pending
       THEN [pending |-> st.pending,
             promise |-> Resolve(st.promise, st.pending[response.id],
                                 <<response.id, response.result>>),
             hits |-> st.hits \cup {response.id}]
       ELSE st

\* DispatchLine with responses matched in the order of the requests: a
\* response is taken only when its id is the oldest entry of the map.
DispatchLine_InOrder(st, line) ==
    LET response == JSONparse(line)
    IN IF /\ response.ok /\ response.id # 0
          /\ response.id \in DOMAIN st.pending
          /\ \A y \in DOMAIN st.pending : response.id <= y
       THEN [pending |-> MapDelete(st.pending, response.id),
             promise |-> Resolve(st.promise, st.pending[response.id],
                                 <<response.id, response.result>>),
             hits |-> st.hits \cup {response.id}]
       ELSE st

\* The body of the for loop over the lines of a chunk, on the handler's
\* view st of the map and the promises; st.hits is the frame's record.
DispatchLine(st, line) ==
    LET response == JSONparse(line)
    IN IF response.ok /\ response.id # 0 /\ response.id \in DOMAIN st.pending
       THEN LET c == st.pending[response.id]
            IN [pending |-> MapDelete(st.pending, response.id),
                promise |-> Resolve(st.promise, c,
                                    <<response.id, response.result>>),
                hits |-> st.hits \cup {response.id}]
       ELSE st

\* DispatchLines with the try/catch around the loop instead of inside it:
\* the first line that fails to parse ends the loop.
RECURSIVE DispatchLines_StopAtBadLine(_, _)
DispatchLines_StopAtBadLine(st, lines) ==
    IF lines = <<>> \/ ~JSONparse(Head(lines)).ok THEN st
    ELSE DispatchLines_StopAtBadLine(DispatchLine(st, Head(lines)), Tail(lines))

RECURSIVE DispatchLines(_, _)
DispatchLines(st, lines) ==
    IF lines = <<>> THEN st
    ELSE DispatchLines(DispatchLine(st, Head(lines)), Tail(lines))

\* What the lines of a chunk parse to.
Parsed(chunk) ==
    LET ls == Lines(chunk)
    IN [k \in 1..Len(ls) |->
           [ok |-> JSONparse(ls[k]).ok, id |-> JSONparse(ls[k]).id]]

StdoutData(chunk) ==
    /\ ~exited /\ run = Idle
    /\ mcpProcess = "child" /\ ~closed
    /\ partial' = OpenAfter(chunk)
    /\ UNCHANGED nErrors
    /\ initBuffer' = IF mcpReady THEN initBuffer ELSE Keep(initBuffer \o chunk)
    /\ IF ~mcpReady /\ StdoutReady(initBuffer \o chunk, chunk)
       THEN /\ mcpReady' = TRUE
            /\ InitResolve
            /\ run' = [on |-> TRUE, readied |-> TRUE, lines |-> Parsed(chunk),
                       hits |-> {}]
            /\ UNCHANGED <<pendingRequests, promise>>
       ELSE LET st == DispatchLines(
                          [pending |-> pendingRequests, promise |-> promise,
                           hits |-> {}],
                          Lines(chunk))
            IN /\ pendingRequests' = st.pending
               /\ promise' = st.promise
               /\ run' = [on |-> TRUE, readied |-> FALSE,
                          lines |-> Parsed(chunk), hits |-> st.hits]
               /\ UNCHANGED <<mcpReady, initPromise>>
    /\ UNCHANGED <<env, mcpProcess, timers, stdin, handshakeTimer, initTimer,
                   closed, exited, childSignal, nCalls>>

\* The stdout handler returns: its frame is gone.
StdoutReturn ==
    /\ UNCHANGED <<partial, nErrors>>
    /\ run # Idle
    /\ run' = Idle
    /\ UNCHANGED <<env, mcpProcess, mcpReady, initBuffer, pendingRequests,
                   promise, timers, stdin, initPromise, handshakeTimer,
                   initTimer, closed, exited, childSignal, nCalls>>

\* StderrData with the flag assigned the outcome of the marker test.
StderrData_AssignsFlag(chunk) ==
    /\ UNCHANGED <<partial, nErrors>>
    /\ ~exited /\ run = Idle
    /\ mcpProcess = "child" /\ ~closed
    /\ mcpReady' = (Includes(chunk, <<STDIO>>) \/ Includes(chunk, <<SRV, RDY>>))
    /\ IF mcpReady' THEN InitResolve ELSE UNCHANGED initPromise
    /\ UNCHANGED <<env, mcpProcess, initBuffer, pendingRequests, promise, timers,
                   stdin, handshakeTimer, initTimer, closed, exited, childSignal,
                   nCalls, run>>

StderrData(chunk) ==
    /\ UNCHANGED <<partial, nErrors>>
    /\ ~exited /\ run = Idle
    /\ mcpProcess = "child" /\ ~closed
    /\ IF ~mcpReady /\ (Includes(chunk, <<STDIO>>) \/ Includes(chunk, <<SRV, RDY>>))
       THEN mcpReady' = TRUE /\ InitResolve
       ELSE UNCHANGED <<mcpReady, initPromise>>
    /\ UNCHANGED <<env, mcpProcess, initBuffer, pendingRequests, promise, timers,
                   stdin, handshakeTimer, initTimer, closed, exited, childSignal,
                   nCalls, run>>

\* for (const [id, {reject}] of pendingRequests) reject(...): every entry, in
\* the map's order (ids are inserted in increasing order).
RECURSIVE RejectAll(_, _, _)
RejectAll(pr, m, ids) ==
    IF ids = {} THEN pr
    ELSE LET id == CHOOSE x \in ids : \A y \in ids : x <= y
         IN RejectAll(Reject(pr, m[id], ErrClosed), m, ids \ {id})

\* ProcessClose without pendingRequests.clear().
ProcessClose_NoClear ==
    /\ UNCHANGED <<partial, nErrors>>
    /\ ~exited /\ run = Idle
    /\ mcpProcess = "child" /\ ~closed
    /\ closed' = TRUE
    /\ mcpReady' = FALSE
    /\ promise' = RejectAll(promise, pendingRequests, DOMAIN pendingRequests)
    /\ UNCHANGED <<env, mcpProcess, initBuffer, timers, stdin, initPromise,
                   handshakeTimer, initTimer, exited, childSignal, nCalls, run,
                   pendingRequests>>

\* ProcessClose without mcpReady = false.
ProcessClose_KeepsReady ==
    /\ UNCHANGED <<partial, nErrors>>
    /\ ~exited /\ run = Idle
    /\ mcpProcess = "child" /\ ~closed
    /\ closed' = TRUE
    /\ promise' = RejectAll(promise, pendingRequests, DOMAIN pendingRequests)
    /\ pendingRequests' = EmptyMap
    /\ UNCHANGED <<env, mcpProcess, initBuffer, timers, stdin, initPromise,
                   handshakeTimer, initTimer, exited, childSignal, nCalls, run,
                   mcpReady>>

ProcessClose ==
    /\ UNCHANGED <<partial, nErrors>>
    /\ ~exited /\ run = Idle
    /\ mcpProcess = "child" /\ ~closed
    /\ closed' = TRUE
    /\ mcpReady' = FALSE
    /\ promise' = RejectAll(promise, pendingRequests, DOMAIN pendingRequests)
    /\ pendingRequests' = EmptyMap
    /\ UNCHANGED <<env, mcpProcess, initBuffer, timers, stdin, initPromise,
                   handshakeTimer, initTimer, exited, childSignal, nCalls, run>>

ProcessError ==
    /\ UNCHANGED partial
    /\ ~exited /\ run = Idle
    /\ mcpProcess = "child" /\ nErrors < MaxErrors
    /\ nErrors' = nErrors + 1
    /\ mcpReady' = FALSE
    /\ InitReject(ErrSpawn)
    /\ UNCHANGED <<env, mcpProcess, initBuffer, pendingRequests, promise, timers,
                   stdin, handshakeTimer, initTimer, closed, childSignal, nCalls, run>>

\* The 1 s timer: the initialize handshake, written once, never registered
\* in pendingRequests.
HandshakeTimer ==
    /\ UNCHANGED <<partial, nErrors>>
    /\ ~exited /\ run = Idle
    /\ handshakeTimer
    /\ handshakeTimer' = FALSE
    /\ stdin' = IF mcpProcess = "child" THEN Append(stdin, HandshakeId) ELSE stdin
    /\ UNCHANGED <<env, mcpProcess, mcpReady, initBuffer, pendingRequests,
                   promise, timers, initPromise, initTimer, closed, exited,
                   childSignal, nCalls, run>>

\* InitTimeout with the test on mcpProcess instead of mcpReady.
InitTimeout_TestsProcess ==
    /\ UNCHANGED <<partial, nErrors>>
    /\ ~exited /\ run = Idle
    /\ initTimer /\ ~handshakeTimer
    /\ initTimer' = FALSE
    /\ IF mcpProcess = "null" THEN InitReject(ErrInitTimeout)
       ELSE UNCHANGED <<initPromise, exited>>
    /\ UNCHANGED <<env, mcpProcess, mcpReady, initBuffer, pendingRequests,
                   promise, timers, stdin, handshakeTimer, closed, childSignal,
                   nCalls, run>>

\* The 60 s timer.  It was set together with the 1 s timer, which is due
\* first.
InitTimeout ==
    /\ UNCHANGED <<partial, nErrors>>
    /\ ~exited /\ run = Idle
    /\ initTimer /\ ~handshakeTimer
    /\ initTimer' = FALSE
    /\ IF ~mcpReady THEN InitReject(ErrInitTimeout)
       ELSE UNCHANGED <<initPromise, exited>>
    /\ UNCHANGED <<env, mcpProcess, mcpReady, initBuffer, pendingRequests,
                   promise, timers, stdin, handshakeTimer, closed, childSignal,
                   nCalls, run>>

\* ------------------------------------------------------------ sendToMCP
\* sendToMCP without the readiness guard.
sendToMCP_NoGuard(c, requestId, writeOk) ==
    /\ UNCHANGED <<partial, nErrors>>
    /\ ~exited /\ run = Idle
    /\ nCalls' = c
    /\ timers' = timers \cup {c}
    /\ pendingRequests' = MapSet(pendingRequests, requestId, c)
    /\ stdin' = Append(stdin, requestId)
    /\ promise' = [promise EXCEPT ![c] =
           [state |-> "pending", id |-> requestId, value |-> NoResp,
            error |-> "", settled |-> 0]]
    /\ UNCHANGED <<env, mcpProcess, mcpReady, initBuffer, initPromise,
                   handshakeTimer, initTimer, closed, exited, childSignal, run>>

\* sendToMCP without pendingRequests.delete(requestId) in the catch block.
sendToMCP_NoDeleteOnThrow(c, requestId, writeOk) ==
    /\ UNCHANGED <<partial, nErrors>>
    /\ ~exited /\ run = Idle
    /\ nCalls' = c
    /\ IF mcpProcess = "null" \/ ~mcpReady
       THEN /\ promise' = [promise EXCEPT ![c] =
                   [state |-> "rejected", id |-> requestId, value |-> NoResp,
                    error |-> ErrNotReady, settled |-> 1]]
            /\ UNCHANGED <<pendingRequests, stdin, timers>>
       ELSE /\ timers' = timers \cup {c}
            /\ pendingRequests' = MapSet(pendingRequests, requestId, c)
            /\ IF writeOk
               THEN /\ stdin' = Append(stdin, requestId)
                    /\ promise' = [promise EXCEPT ![c] =
                           [state |-> "pending", id |-> requestId,
                            value |-> NoResp, error |-> "", settled |-> 0]]
               ELSE /\ promise' = [promise EXCEPT ![c] =
                           [state |-> "rejected", id |-> requestId,
                            value |-> NoResp, error |-> ErrWrite,
                            settled |-> 1]]
                    /\ UNCHANGED stdin
    /\ UNCHANGED <<env, mcpProcess, mcpReady, initBuffer, initPromise,
                   handshakeTimer, initTimer, closed, exited, childSignal, run>>

\* Call c with message.id = requestId; writeOk says whether stdin.write
\* returns or throws.
sendToMCP(c, requestId, writeOk) ==
    /\ UNCHANGED <<partial, nErrors>>
    /\ ~exited /\ run = Idle
    /\ nCalls' = c
    /\ IF mcpProcess = "null" \/ ~mcpReady
       THEN /\ promise' = [promise EXCEPT ![c] =
                   [state |-> "rejected", id |-> requestId, value |-> NoResp,
                    error |-> ErrNotReady, settled |-> 1]]
            /\ UNCHANGED <<pendingRequests, stdin, timers>>
       ELSE /\ timers' = timers \cup {c}
            /\ IF writeOk
               THEN /\ pendingRequests' = MapSet(pendingRequests, requestId, c)
                    /\ stdin' = Append(stdin, requestId)
                    /\ promise' = [promise EXCEPT ![c] =
                           [state |-> "pending", id |-> requestId,
                            value |-> NoResp, error |-> "", settled |-> 0]]
               ELSE /\ pendingRequests' =
                           MapDelete(MapSet(pendingRequests, requestId, c), requestId)
                    /\ promise' = [promise EXCEPT ![c] =
                           [state |-> "rejected", id |-> requestId,
                            value |-> NoResp, error |-> ErrWrite,
                            settled |-> 1]]
                    /\ UNCHANGED stdin
    /\ UNCHANGED <<env, mcpProcess, mcpReady, initBuffer, initPromise,
                   handshakeTimer, initTimer, closed, exited, childSignal, run>>

\* A route handler builds the message with id: uuidv4() and calls sendToMCP.
Request ==
    \E writeOk \in BOOLEAN :
        /\ nCalls < MaxCalls
        /\ sendToMCP(nCalls + 1, uuidv4(nCalls + 1), writeOk)

\* TimerFire without the pendingRequests.has(requestId) test.
TimerFire_NoHasCheck(c) ==
    /\ UNCHANGED <<partial, nErrors>>
    /\ ~exited /\ run = Idle
    /\ c \in timers /\ ~handshakeTimer
    /\ \A d \in timers : c <= d
    /\ timers' = timers \ {c}
    /\ pendingRequests' = MapDelete(pendingRequests, promise[c].id)
    /\ promise' = Reject(promise, c, ErrTimeout)
    /\ UNCHANGED <<env, mcpProcess, mcpReady, initBuffer, stdin, initPromise,
                   handshakeTimer, initTimer, closed, exited, childSignal,
                   nCalls, run>>

\* TimerFire without pendingRequests.delete(requestId).
TimerFire_NoDelete(c) ==
    /\ UNCHANGED <<partial, nErrors>>
    /\ ~exited /\ run = Idle
    /\ c \in timers /\ ~handshakeTimer
    /\ \A d \in timers : c <= d
    /\ timers' = timers \ {c}
    /\ IF promise[c].id \in DOMAIN pendingRequests
       THEN promise' = Reject(promise, c, ErrTimeout)
       ELSE UNCHANGED promise
    /\ UNCHANGED <<env, mcpProcess, mcpReady, initBuffer, stdin, initPromise,
                   handshakeTimer, initTimer, closed, exited, childSignal,
                   nCalls, run, pendingRequests>>

\* The 30 s timer of call c.  Timers fire in the order they fall due: after
\* the 1 s timer, which was set before any call, and after the 30 s timers
\* of the earlier calls.
TimerFire(c) ==
    /\ UNCHANGED <<partial, nErrors>>
    /\ ~exited /\ run = Idle
    /\ c \in timers /\ ~handshakeTimer
    /\ \A d \in timers : c <= d
    /\ timers' = timers \ {c}
    /\ LET requestId == promise[c].id
       IN IF requestId \in DOMAIN pendingRequests
          THEN /\ pendingRequests' = MapDelete(pendingRequests, requestId)
               /\ promise' = Reject(promise, c, ErrTimeout)
          ELSE UNCHANGED <<pendingRequests, promise>>
    /\ UNCHANGED <<env, mcpProcess, mcpReady, initBuffer, stdin, initPromise,
                   handshakeTimer, initTimer, closed, exited, childSignal,
                   nCalls, run>>

\* process.on('SIGTERM' | 'SIGINT'): kill the child, then process.exit(0).
Shutdown(sig) ==
    /\ UNCHANGED <<partial, nErrors>>
    /\ ~exited /\ run = Idle
    /\ childSignal' = IF mcpProcess = "child" THEN sig ELSE childSignal
    /\ exited' = TRUE
    /\ UNCHANGED <<env, mcpProcess, mcpReady, initBuffer, pendingRequests,
                   promise, timers, stdin, initPromise, handshakeTimer,
                   initTimer, closed, nCalls, run>>

\* ------------------------------------------------------------ specification
Next ==
    \/ InitializeMCP
    \/ \E chunk \in StdoutChunks(partial, stdin) : StdoutData(chunk)
    \/ StdoutReturn
    \/ \E chunk \in StderrChunks : StderrData(chunk)
    \/ ProcessClose
    \/ ProcessError
    \/ HandshakeTimer
    \/ InitTimeout
    \/ Request
    \/ \E c \in Calls : TimerFire(c)
    \/ \E sig \in {"SIGTERM", "SIGINT"} : Shutdown(sig)

Spec == Init /\ [][Next]_vars

\* The bridge is never signalled, every handler that runs returns, and the
\* event loop runs the callback of every timer that is due between two
\* handlers (a timer is disabled only while a handler runs, hence SF).
NextRunning ==
    \/ InitializeMCP
    \/ \E chunk \in StdoutChunks(partial, stdin) : StdoutData(chunk)
    \/ StdoutReturn
    \/ \E chunk \in StderrChunks : StderrData(chunk)
    \/ ProcessClose
    \/ ProcessError
    \/ HandshakeTimer
    \/ InitTimeout
    \/ Request
    \/ \E c \in Calls : TimerFire(c)

LiveSpec ==
    /\ Init /\ [][NextRunning]_vars
    /\ WF_vars(StdoutReturn)
    /\ SF_vars(HandshakeTimer)
    /\ \A c \in Calls : SF_vars(TimerFire(c))

\* As LiveSpec, for the start of the bridge: the module's last statement
\* calls startServer, and the 60 s timer is run when it is due.
BootSpec ==
    /\ Init /\ [][NextRunning]_vars
    /\ WF_vars(StdoutReturn)
    /\ WF_vars(InitializeMCP)
    /\ SF_vars(HandshakeTimer)
    /\ SF_vars(InitTimeout)

Registered(c) == promise[c].state = "pending"
Terminal(c) == promise[c].state \in {"resolved", "rejected"}
Outcome(c, err) == promise[c].state = "rejected" /\ promise[c].error = err
OwnResponse(c) ==
    promise[c].state = "resolved" /\ promise[c].value[1] = promise[c].id

\* The handlers a step belongs to, read off the state it changes.
StdoutStep == ~run.on /\ run'.on
RequestStep == nCalls' = nCalls + 1
TimerStep(c) == c \in timers /\ c \notin timers'
CloseStep == ~closed /\ closed'
ErrorStep == nErrors' = nErrors + 1

\* The lines the running stdout handler has gone through.
LineNos == 1..Len(run.lines)
LineNosNext == 1..Len(run'.lines)
ParsedIdsNext == {run'.lines[k].id : k \in {j \in LineNosNext : run'.lines[j].ok}}

\* ------------------------------------------------------------ C1
\* C1: requests issued with distinct ids while the bridge is ready are each
\* settled at most once, a resolved one holds the response that carries its
\* own id, and a ready bridge resolves every pending id it finds on a line of
\* a chunk, whatever the position of that line among the others.
C1_Dispatch ==
    StdoutStep /\ mcpReady =>
        \A k \in LineNosNext :
            LET l == run'.lines[k]
            IN l.ok /\ l.id \in DOMAIN pendingRequests =>
                   /\ l.id \notin DOMAIN pendingRequests'
                   /\ promise'[pendingRequests[l.id]].state = "resolved"
                   /\ promise'[pendingRequests[l.id]].value[1] = l.id

\* C1: concurrent requests with distinct ids are each resolved once, with the
\* response carrying their own id, whatever the order of the response lines.
C1_OwnResponseAnyOrder ==
    /\ [](\A c \in Calls :
             /\ promise[c].settled <= 1
             /\ promise[c].state = "resolved" => OwnResponse(c))
    /\ [][C1_Dispatch]_vars

\* Two requests answered in one chunk in the reverse of the order they were
\* sent in.
C1_Witness ==
    /\ run.on /\ Len(run.lines) = 2
    /\ run.lines[1] = [ok |-> TRUE, id |-> 2]
    /\ run.lines[2] = [ok |-> TRUE, id |-> 1]
    /\ run.hits = {1, 2}
    /\ OwnResponse(1) /\ OwnResponse(2)
    /\ promise[1].settled = 1 /\ promise[2].settled = 1

\* ------------------------------------------------------------ C2
\* C2: no request's resolve/reject pair is invoked twice, and every request
\* registered in pendingRequests reaches a terminal outcome.
C2_ExactlyOneOutcome ==
    /\ [](\A c \in Calls : promise[c].settled <= 1)
    /\ \A c \in Calls : Registered(c) ~> Terminal(c)

\* All timers have fired; one request was answered, the other timed out.
C2_Witness ==
    /\ timers = {} /\ nCalls = MaxCalls
    /\ \E c \in Calls : OwnResponse(c) /\ promise[c].settled = 1
    /\ \E c \in Calls : Outcome(c, ErrTimeout) /\ promise[c].settled = 1

\* ------------------------------------------------------------ C3
\* C3: the timer of a request that is still pending rejects it with the
\* timeout error and removes its id, leaving the other entries alone; a
\* chunk handled later never changes a timed-out request, and when every id
\* it carries is a timed-out one it changes no promise and no entry.
TimedOutIds == {promise[c].id : c \in {d \in Calls : Outcome(d, ErrTimeout)}}

C3_Step ==
    /\ \A c \in Calls :
           TimerStep(c) /\ Registered(c) =>
               /\ promise'[c].state = "rejected"
               /\ promise'[c].error = ErrTimeout
               /\ promise'[c].settled = 1
               /\ pendingRequests' = MapDelete(pendingRequests, promise[c].id)
    /\ StdoutStep =>
           /\ \A c \in Calls : Outcome(c, ErrTimeout) => promise'[c] = promise[c]
           /\ ParsedIdsNext \subseteq TimedOutIds \cup {0} =>
                  promise' = promise /\ pendingRequests' = pendingRequests

\* C3: the timer of a pending request rejects it with the timeout error and
\* removes its entry; a response arriving later changes nothing.
C3_TimeoutThenLateResponse == [][C3_Step]_vars

\* The handler has just gone through a response line for a request that had
\* timed out, while another request is pending.
C3_Witness ==
    /\ run.on /\ ~run.readied
    /\ \E k \in LineNos, c \in Calls :
           /\ run.lines[k] = [ok |-> TRUE, id |-> promise[c].id]
           /\ promise[c].id \notin run.hits
           /\ Outcome(c, ErrTimeout) /\ promise[c].settled = 1
    /\ DOMAIN pendingRequests # {}

\* ------------------------------------------------------------ C4
\* C4: the 'close' handler rejects every pending request with the
\* process-closed error, touches no other promise and leaves the map empty;
\* a request rejected that way is never settled again.
C4_Step ==
    /\ CloseStep =>
           /\ pendingRequests' = EmptyMap
           /\ \A c \in Calls :
                  IF Registered(c)
                  THEN /\ promise'[c].state = "rejected"
                       /\ promise'[c].error = ErrClosed
                       /\ promise'[c].settled = 1
                  ELSE promise'[c] = promise[c]
    /\ \A c \in Calls : Outcome(c, ErrClosed) => promise'[c] = promise[c]

\* C4: 'close' rejects every pending request with the closed error, empties
\* the map, and none of those requests is settled again.
C4_CloseRejectsAll == [][C4_Step]_vars

\* Two requests were pending at 'close'; both timers have fired since.
C4_Witness ==
    /\ closed /\ pendingRequests = EmptyMap /\ timers = {}
    /\ \A c \in Calls : Outcome(c, ErrClosed) /\ promise[c].settled = 1

\* ------------------------------------------------------------ C5
\* C5: a sendToMCP call made while mcpReady is false or mcpProcess is null
\* is rejected with the not-ready error, writes nothing to stdin, adds no
\* entry to pendingRequests and arms no timer.
C5_Step ==
    RequestStep /\ (mcpProcess = "null" \/ ~mcpReady) =>
        /\ promise'[nCalls'].state = "rejected"
        /\ promise'[nCalls'].error = ErrNotReady
        /\ promise'[nCalls'].settled = 1
        /\ stdin' = stdin
        /\ pendingRequests' = pendingRequests
        /\ timers' = timers

\* C5: a call made while the bridge is not ready is rejected at once; nothing
\* is written, registered or timed.
C5_NotReadyRejected == [][C5_Step]_vars

\* Every call was rejected as not ready; the child has been ready and has
\* closed, and nothing but the handshake was ever written.
C5_Witness ==
    /\ closed /\ initPromise.state = "resolved"
    /\ nCalls = MaxCalls
    /\ \A c \in Calls : Outcome(c, ErrNotReady) /\ promise[c].settled = 1
    /\ \A k \in 1..Len(stdin) : stdin[k] = HandshakeId
    /\ timers = {} /\ pendingRequests = EmptyMap

C6_Step ==
    /\ mcpReady /\ ~mcpReady' => CloseStep \/ ErrorStep
    /\ ~mcpReady /\ mcpReady' =>
           /\ ~closed /\ ~closed'
           /\ StdoutStep \/ \E chunk \in StderrChunks : StderrData(chunk)

CompletedLine == partial \o SubSeq(RestOf(partial), 1, 1)

C7_Step ==
    StdoutStep /\ mcpReady /\ partial # <<>> =>
        LET response == JSONparse(CompletedLine)
        IN response.ok /\ response.id \in DOMAIN pendingRequests =>
               /\ response.id \notin DOMAIN pendingRequests'
               /\ promise'[pendingRequests[response.id]].state = "resolved"

\* C7: a response line split over two chunks is completed by the second chunk
\* and dispatched like a line delivered whole.
C7_ChunkBoundaryIndependent == [][C7_Step]_vars

\* ------------------------------------------------------------ C8
\* C8: a stdout chunk changes only the requests whose ids its parsed lines
\* carry: every other promise and every other entry of pendingRequests is
\* left as it was, no entry is added, and a chunk none of whose lines
\* carries a pending id changes nothing.
C8_Step ==
    StdoutStep =>
        /\ \A c \in Calls :
               ~Registered(c) \/ promise[c].id \notin ParsedIdsNext =>
                   promise'[c] = promise[c]
        /\ DOMAIN pendingRequests' \subseteq DOMAIN pendingRequests
        /\ \A id \in DOMAIN pendingRequests :
               id \notin ParsedIdsNext =>
                   /\ id \in DOMAIN pendingRequests'
                   /\ pendingRequests'[id] = pendingRequests[id]
        /\ ParsedIdsNext \cap DOMAIN pendingRequests = {} =>
               promise' = promise /\ pendingRequests' = pendingRequests

\* C8: a line without id, or with an id that is not pending, changes no
\* request and no entry.
C8_UnmatchedLineDropped == [][C8_Step]_vars

\* A chunk with a notification (no id) and a response to the handshake (an id
\* that never was a key), handled while a request is pending.
C8_Witness ==
    /\ run.on /\ ~run.readied /\ run.hits = {}
    /\ \E k \in LineNos : run.lines[k] = [ok |-> TRUE, id |-> 0]
    /\ \E k \in LineNos : run.lines[k] = [ok |-> TRUE, id |-> HandshakeId]
    /\ \E c \in Calls : Registered(c) /\ promise[c].id \in DOMAIN pendingRequests

\* ------------------------------------------------------------ C9
\* C9: a stdout chunk rejects no request and never takes readiness away; a
\* chunk with no parsable line changes no promise and no entry; and on a
\* ready bridge a response line for a pending id is resolved also when lines
\* before it in the chunk failed to parse.
C9_Step ==
    StdoutStep =>
        /\ \A c \in Calls :
               promise'[c].state = "rejected" => promise'[c] = promise[c]
        /\ mcpReady => mcpReady'
        /\ (\A k \in LineNosNext : ~run'.lines[k].ok) =>
               promise' = promise /\ pendingRequests' = pendingRequests
        /\ mcpReady =>
               \A k \in LineNosNext :
                   LET l == run'.lines[k]
                   IN /\ l.ok /\ l.id \in DOMAIN pendingRequests
                      /\ \E j \in 1..(k - 1) : ~run'.lines[j].ok
                      => /\ promise'[pendingRequests[l.id]].state = "resolved"
                         /\ promise'[pendingRequests[l.id]].value[1] = l.id
                         /\ l.id \notin DOMAIN pendingRequests'

\* C9: a line that is not JSON rejects nothing and does not unset readiness;
\* a response line of the same chunk is still resolved.
C9_NoiseIsNotAnError == [][C9_Step]_vars

\* A chunk 'noise' line, response line: the request is resolved.
C9_Witness ==
    /\ run.on /\ ~run.readied /\ mcpReady /\ Len(run.lines) = 2
    /\ ~run.lines[1].ok
    /\ run.lines[2].ok /\ run.lines[2].id \in run.hits
    /\ \E c \in Calls : promise[c].id = run.lines[2].id /\ OwnResponse(c)

\* ------------------------------------------------------------ C10
\* C10: when the write to stdin throws, the call is rejected with the write
\* error and leaves no entry in pendingRequests; such a call never has an
\* entry and is settled once, and its timer changes no promise and no entry.
WriteFailed == RequestStep /\ mcpProcess = "child" /\ mcpReady /\ stdin' = stdin

C10_Step ==
    /\ WriteFailed =>
           /\ promise'[nCalls'].state = "rejected"
           /\ promise'[nCalls'].error = ErrWrite
           /\ promise'[nCalls'].id \notin DOMAIN pendingRequests'
           /\ \A id \in DOMAIN pendingRequests :
                  /\ id \in DOMAIN pendingRequests'
                  /\ pendingRequests'[id] = pendingRequests[id]
    /\ \A c \in Calls :
           TimerStep(c) /\ Outcome(c, ErrWrite) =>
               promise' = promise /\ pendingRequests' = pendingRequests

\* C10: a failed write removes the entry and rejects the request in the same
\* call; its timer later changes nothing.
C10_WriteFailure ==
    /\ [][C10_Step]_vars
    /\ [](\A c \in Calls :
             Outcome(c, ErrWrite) =>
                 /\ promise[c].settled = 1
                 /\ promise[c].id \notin DOMAIN pendingRequests)

\* The timer of a call whose write failed has fired while a later request is
\* pending.
C10_Witness ==
    /\ Outcome(1, ErrWrite) /\ promise[1].settled = 1 /\ 1 \notin timers
    /\ Registered(2) /\ 2 \in timers
    /\ DOMAIN pendingRequests = {promise[2].id} /\ pendingRequests[promise[2].id] = 2

\* ------------------------------------------------------------ C11
\* The step of a SIGTERM/SIGINT handler: the bridge exits and the
\* initialization promise is not what made it exit.
ShutdownStep == ~exited /\ exited' /\ initPromise' = initPromise

C11_Step ==
    ShutdownStep =>
        /\ mcpProcess = "child" => childSignal' \in {"SIGTERM", "SIGINT"}
        /\ pendingRequests' = EmptyMap
        /\ \A c \in Calls : Registered(c) => promise'[c].state = "rejected"

\* C11: on SIGTERM or SIGINT the child is sent the signal and every request
\* still in pendingRequests is rejected before the bridge stops; none is left
\* unsettled.
C11_ShutdownFailsPending == [][C11_Step]_vars

\* ------------------------------------------------------------ C12
\* The bridge is booting: initializeMCP has spawned the child and its promise
\* is not settled.
Booting == initPromise.state = "pending"

\* A readiness signal on stdout: the text received so far, which ends with
\* the unfinished line open followed by chunk, holds a marker there.
StdoutSignal(open, chunk) ==
    \/ Includes(open \o chunk, <<SRV, RDY>>)
    \/ Includes(chunk, <<DTR>>)
    \/ Includes(chunk, <<NInit>>)

StderrSignal(chunk) == Includes(chunk, <<STDIO>>) \/ Includes(chunk, <<SRV, RDY>>)

C12_Step ==
    /\ \A chunk \in StdoutChunks(partial, stdin) :
           Booting /\ StdoutData(chunk) /\ StdoutSignal(partial, chunk) =>
               mcpReady' /\ initPromise'.state = "resolved"
    /\ \A chunk \in StderrChunks :
           Booting /\ StderrData(chunk) /\ StderrSignal(chunk) =>
               mcpReady' /\ initPromise'.state = "resolved"

\* C12: while booting, the first readiness signal on stdout (in the text
\* accumulated so far, or notifications/initialized in the chunk) or on
\* stderr sets mcpReady and resolves the initialization promise, with or
\* without a reply to the handshake.
C12_FirstSignalResolves == [][C12_Step]_vars

\* The stdout handler has just made the bridge ready, before the handshake
\* was even written.
C12_Witness ==
    /\ run.on /\ run.readied /\ mcpReady
    /\ initPromise.state = "resolved"
    /\ handshakeTimer /\ stdin = <<>>

\* ------------------------------------------------------------ C13
Settled == initPromise.state \in {"resolved", "rejected"}
InitTimeoutStep == initTimer /\ ~initTimer'

C13_Step ==
    /\ Settled => initPromise' = initPromise
    /\ InitTimeoutStep /\ Booting =>
           initPromise' = [state |-> "rejected", error |-> ErrInitTimeout]
    /\ InitTimeoutStep /\ initPromise.state = "resolved" => ~exited'

\* C13: the initialization promise settles, and only once: the 60 s timer
\* rejects it with the timeout error when it is still pending (also when the
\* child has closed by then), and changes nothing when it was resolved.
C13_InitSettlesOnce ==
    /\ [][C13_Step]_vars
    /\ <>Settled

\* The child closed without ever being ready and the 60 s timer rejected the
\* promise.
C13_Witness ==
    /\ closed /\ ~initTimer
    /\ initPromise = [state |-> "rejected", error |-> ErrInitTimeout]

\* ------------------------------------------------------------ C14
\* C14: with DT_PLATFORM_TOKEN or DT_ENVIRONMENT missing, initializeMCP
\* rejects its promise and nothing else ever happens: no child, no handler
\* run, no timer, nothing written to a child.
C14_NoSpawnWithoutEnv ==
    ~env =>
        /\ mcpProcess = "null"
        /\ ~handshakeTimer /\ ~initTimer /\ timers = {}
        /\ stdin = <<>> /\ pendingRequests = EmptyMap
        /\ ~mcpReady /\ ~closed /\ nErrors = 0
        /\ run = Idle /\ initBuffer = <<>> /\ partial = <<>>
        /\ initPromise \in {[state |-> "none", error |-> ""],
                            [state |-> "rejected", error |-> ErrEnv]}

\* initializeMCP has run without the two variables.
C14_Witness ==
    /\ ~env /\ initPromise = [state |-> "rejected", error |-> ErrEnv]
    /\ mcpProcess = "null" /\ exited

\* ------------------------------------------------------------ C15
\* The stdout handler went through the lines of its chunk.
LoopStep == StdoutStep /\ ~run'.readied
Entry(c) == promise[c].id \in DOMAIN pendingRequests /\ pendingRequests[promise[c].id] = c

C15_Step ==
    /\ LoopStep =>
           \A a, b \in Calls :
               /\ a # b /\ Registered(a) /\ Registered(b) /\ Entry(a) /\ Entry(b)
               /\ promise[b].id \in ParsedIdsNext
               /\ promise[a].id \notin ParsedIdsNext
               => /\ promise'[b].state = "resolved"
                  /\ promise'[b].value[1] = promise[b].id
                  /\ promise[b].id \notin DOMAIN pendingRequests'
                  /\ promise'[a] = promise[a]
                  /\ promise[a].id \in DOMAIN pendingRequests'
    /\ \A a \in Calls :
           TimerStep(a) /\ Registered(a) /\ Entry(a) =>
               /\ Outcome(a, ErrTimeout)'
               /\ \A b \in Calls \ {a} : promise'[b] = promise[b]
               /\ pendingRequests' = MapDelete(pendingRequests, promise[a].id)

\* C15: while request A is pending and unanswered, another pending request B
\* is resolved by the chunk whose lines hold B's response, and A's timeout
\* removes A's entry and rejects A's promise only.
C15_NoHeadOfLineBlocking == [][C15_Step]_vars

\* The later request has just been resolved while the earlier one is still
\* pending in the map.
C15_Witness ==
    /\ run.on /\ ~run.readied /\ run.hits = {promise[2].id}
    /\ OwnResponse(2) /\ promise[2].settled = 1
    /\ Registered(1) /\ Entry(1) /\ 1 \in timers

\* ------------------------------------------------------------ C16
C16_Step ==
    StdoutStep =>
        \A k \in LineNosNext :
            LET l == run'.lines[k]
            IN l.ok /\ l.id \in DOMAIN pendingRequests =>
                   /\ l.id \notin DOMAIN pendingRequests'
                   /\ promise'[pendingRequests[l.id]].state = "resolved"
                   /\ promise'[pendingRequests[l.id]].value[1] = l.id

\* C16: a stdout chunk with a complete JSON line whose id is a key of
\* pendingRequests removes that key and resolves its promise with the parsed
\* response, on every chunk, also the one that turns the bridge ready.
C16_EveryChunkDispatches == [][C16_Step]_vars

\* ------------------------------------------------------------ C17
\* sendToMCP keeps an id the caller put in the message (message.id ||
\* uuidv4()): a call whose message carries the id of an earlier call.
Resend ==
    \E writeOk \in BOOLEAN, k \in 1..nCalls :
        /\ nCalls < MaxCalls
        /\ sendToMCP(nCalls + 1, promise[k].id, writeOk)

DupNext == Next \/ Resend

DupSpec == Init /\ [][DupNext]_vars

C17_Step ==
    /\ RequestStep /\ mcpProcess = "child" /\ mcpReady
    /\ promise'[nCalls'].id \in DOMAIN pendingRequests
    => /\ promise'[nCalls'].state = "rejected"
       /\ pendingRequests' = pendingRequests
       /\ stdin' = stdin

\* C17: a request issued with an id that is a key of pendingRequests is
\* rejected and the entry of the first request is not overwritten.
C17_DuplicateRejected == [][C17_Step]_vars

\* ------------------------------------------------------------ C18
C18_Step ==
    /\ closed => closed' /\ mcpProcess' = mcpProcess
    /\ closed /\ RequestStep =>
           /\ promise'[nCalls'].state = "rejected"
           /\ promise'[nCalls'].error = ErrNotReady
           /\ promise'[nCalls'].settled = 1
           /\ stdin' = stdin
           /\ pendingRequests' = pendingRequests
           /\ timers' = timers

\* C18: after the child's 'close' no child is spawned again, mcpReady stays
\* false, every sendToMCP call is rejected as not ready without a write or
\* an entry, and pendingRequests stays empty.
C18_CrashIsTerminal ==
    /\ [][C18_Step]_vars
    /\ [](closed => ~mcpReady /\ pendingRequests = EmptyMap)

\* One request was pending at 'close'; the next call, made after it, was
\* rejected as not ready.
C18_Witness ==
    /\ closed /\ nErrors = 0
    /\ Outcome(1, ErrClosed) /\ Outcome(2, ErrNotReady)
    /\ stdin = <<promise[1].id>> /\ pendingRequests = EmptyMap

\* ------------------------------------------------------------ C19
\* C19: the keys of pendingRequests are exactly the ids of the requests that
\* sendToMCP registered and whose promise is not settled, and each key holds
\* the resolve/reject pair of that request.
C19_KeysAreUnsettledRequests ==
    /\ DOMAIN pendingRequests = {promise[c].id : c \in {d \in Calls : Registered(d)}}
    /\ \A id \in DOMAIN pendingRequests : promise[pendingRequests[id]].id = id

\* One request has timed out and has no entry; the other is pending and has
\* one.
C19_Witness ==
    /\ Outcome(1, ErrTimeout) /\ Registered(2)
    /\ DOMAIN pendingRequests = {promise[2].id}
    /\ promise[1].id # promise[2].id
====
